---- MODULE Spec2Model ----
(***************************************************************************)
(* Model of cap_upload_validator: UploadValidator.validate and its four    *)
(* checks, CapMultiException, and GeneMap.data_frame / str_to_organism.    *)
(*                                                                         *)
(* Python strings are sequences of one-character strings, so that          *)
(* endswith, startswith, strip, lower, split and the regex ^\s*$ are       *)
(* computed.  An optional value (None or a value) is a sequence of length  *)
(* 0 or 1.  Matrix values are stored doubled, so that 1.5 is the integer 3   *)
(* and astype(int) is a real truncation.                                   *)
(***************************************************************************)
EXTENDS Integers, Sequences, FiniteSets, TLC

VARIABLES
    adata_path,     \* UploadValidator._adata_path
    file,           \* the dataset stored at adata_path (never written)
    ex_list,        \* UploadValidator._multi_exception.ex_list
    organism,       \* UploadValidator._organism (optional)
    ensembl_ids,    \* UploadValidator._ensembl_ids (optional)
    pc,             \* position of the current validate() call
    log,            \* checks begun in the current call ("Begin checking ...")
    opens,          \* read_h5ad calls made for this validator object
    calls,          \* validate() calls begun on this validator object
    outcomes        \* what each finished validate() call returned or raised

vars == <<adata_path, file, ex_list, organism, ensembl_ids, pc, log, opens,
          calls, outcomes>>

(***************************************************************************)
(* Bounds of the model.                                                    *)
(***************************************************************************)
MaxCalls == 2        \* validate() calls made in one behaviour
MaxExtraRows == 1    \* rows a matrix may have beyond MAX_OBS_ROWS_TO_CHECK
MaxVars == 2         \* length of a column-metadata index

(***************************************************************************)
(* Optional values.                                                        *)
(***************************************************************************)
None == <<>>
Some(x) == <<x>>
IsNone(o) == Len(o) = 0
Get(o) == o[1]

(***************************************************************************)
(* Strings.                                                                *)
(***************************************************************************)
IsSpace(c) == c \in {" ", "\t", "\n"}

Lower(c) ==
    CASE c = "H" -> "h"
      [] c = "M" -> "m"
      [] c = "S" -> "s"
      [] OTHER -> c

StrLower(s) == [i \in 1..Len(s) |-> Lower(s[i])]

RECURSIVE LStrip(_)
LStrip(s) ==
    IF Len(s) > 0 /\ IsSpace(s[1]) THEN LStrip(Tail(s)) ELSE s

RECURSIVE RStrip(_)
RStrip(s) ==
    IF Len(s) > 0 /\ IsSpace(s[Len(s)])
    THEN RStrip(SubSeq(s, 1, Len(s) - 1))
    ELSE s

StrStrip(s) == RStrip(LStrip(s))

StartsWith(s, prefix) ==
    /\ Len(s) >= Len(prefix)
    /\ SubSeq(s, 1, Len(prefix)) = prefix

EndsWith(s, suffix) ==
    /\ Len(s) >= Len(suffix)
    /\ SubSeq(s, Len(s) - Len(suffix) + 1, Len(s)) = suffix

\* x.split(sep)[0]: everything before the first occurrence of sep
RECURSIVE SplitFirst(_, _)
SplitFirst(s, sep) ==
    IF Len(s) = 0 \/ s[1] = sep
    THEN <<>>
    ELSE <<s[1]>> \o SplitFirst(Tail(s), sep)

\* re.match(r'^\s*$', s)
MatchesBlank(s) == \A i \in 1..Len(s) : IsSpace(s[i])

Range(s) == {s[i] : i \in 1..Len(s)}

(***************************************************************************)
(* Program constants.                                                      *)
(***************************************************************************)
MAX_OBS_ROWS_TO_CHECK == 100
EMBEDDING_PREFIX == <<"X", "_">>
ORGANISM_COLUMN == "organism"
OBS_COLUMNS_REQUIRED == <<"assay", "disease", ORGANISM_COLUMN, "tissue">>
H5AD_SUFFIX == <<".", "h", "5", "a", "d">>

\* the sub-error classes of errors.py and BadAnnDataFile, by class name
AnnDataFileMissingCountMatrix == "AnnDataFileMissingCountMatrix"
AnnDataMissingEmbeddings == "AnnDataMissingEmbeddings"
AnnDataMisingObsColumns == "AnnDataMisingObsColumns"
AnnDataNonStandardVarError == "AnnDataNonStandardVarError"
BadAnnDataFile == "BadAnnDataFile"

\* CapMultiException.raise_on_append: the class default, which validate() uses
raise_on_append == FALSE

\* EnsemblOrganism.HUMAN.value, .MOUSE.value, .MULTI_SPECIES.value
HUMAN == <<"H", "o", "m", "o", " ", "s", "a", "p", "i", "e", "n", "s">>
MOUSE == <<"M", "u", "s", " ", "m", "u", "s", "c", "u", "l", "u", "s">>
MULTI_SPECIES ==
    <<"M", "u", "l", "t", "i", " ", "s", "p", "e", "c", "i", "e", "s">>

\* the literals str_to_organism compares with
LitHomoSapiens == <<"h", "o", "m", "o", " ", "s", "a", "p", "i", "e", "n", "s">>
LitMusMusculus == <<"m", "u", "s", " ", "m", "u", "s", "c", "u", "l", "u", "s">>
LitMultiSpecies ==
    <<"m", "u", "l", "t", "i", " ", "s", "p", "e", "c", "i", "e", "s">>

(***************************************************************************)
(* gene_map.py                                                             *)
(***************************************************************************)
\* gene identifiers used by the bundled tables and by the datasets
ENSG1 == <<"E", "N", "S", "G", "1">>
ENSG1_8 == ENSG1 \o <<".", "8">>
ENSMUSG1 == <<"E", "N", "S", "M", "U", "S", "G", "1">>
NUM0 == <<"0">>

\* the ENSEMBL_gene column of data/homo_sapiens.csv and data/mus_musculus.csv
HUMAN_GENE_MAP == <<ENSG1>>
MOUSE_GENE_MAP == <<ENSMUSG1>>

\* Python values GeneMap.data_frame handles: None, a class object, an
\* instance of _BasicOrganism, a list
PyNone == [kind |-> "none", name |-> "", items |-> <<>>]
PyClass(n) == [kind |-> "class", name |-> n, items |-> <<>>]
PyList(xs) == [kind |-> "list", name |-> "", items |-> xs]

HomoSapiens == PyClass("HomoSapiens")
MusMusculus == PyClass("MusMusculus")
MultiSpecies == PyClass("MultiSpecies")

\* class attribute gene_map_path; MultiSpecies inherits HomoSapiens'
gene_map_path(o) ==
    IF o.name = "MusMusculus" THEN MOUSE_GENE_MAP ELSE HUMAN_GENE_MAP

str_to_organism(organism_str) ==
    LET clean_str == StrLower(StrStrip(organism_str))
    IN  IF clean_str = LitHomoSapiens THEN HomoSapiens
        ELSE IF clean_str = LitMusMusculus THEN MusMusculus
        ELSE IF clean_str = LitMultiSpecies THEN MultiSpecies
        ELSE PyNone

\* isinstance(organism, _BasicOrganism): true of instances only; the module
\* creates none, HomoSapiens and the others are the class objects themselves
IsBasicOrganismInstance(o) == o.kind = "instance"

RECURSIVE ConcatFrames(_)
ConcatFrames(dfs) ==
    IF Len(dfs) = 0 THEN <<>> ELSE Head(dfs) \o ConcatFrames(Tail(dfs))

\* GeneMap.data_frame(organisms): organisms is None or a str.  The result is
\* [raised, frame]: raised names the exception that left the call ("" for a
\* normal return), frame is the returned ENSEMBL_gene column (None for the
\* return value None).
data_frame(organisms) ==
    LET given == IF IsNone(organisms)
                 THEN PyList(<<HomoSapiens, MusMusculus>>)
                 ELSE str_to_organism(Get(organisms))
    IN  IF given.kind # "list"
        THEN \* for organism in organisms: a class object and None are not iterable
             [raised |-> "TypeError", frame |-> None]
        ELSE LET picked == SelectSeq(given.items, IsBasicOrganismInstance)
                 dfs == [i \in 1..Len(picked) |-> gene_map_path(picked[i])]
             IN  IF Len(dfs) > 0
                 THEN [raised |-> "", frame |-> Some(ConcatFrames(dfs))]
                 ELSE [raised |-> "", frame |-> None]

(***************************************************************************)
(* errors.py: CapMultiException                                            *)
(***************************************************************************)
\* append(other): [raised, ex_list]
append(list, other) ==
    IF raise_on_append
    THEN [raised |-> other, ex_list |-> list]
    ELSE [raised |-> "", ex_list |-> Append(list, other)]

\* variant: an aggregate holding one sub-error counts as empty
have_errors_off_by_one(list) == Len(list) > 1

have_errors(list) == Len(list) > 0

to_list(list) == list

(***************************************************************************)
(* The dataset view (cap_anndata.CapAnnData), as the checks read it.       *)
(*   n_cells  shape[0]                                                     *)
(*   X        optional matrix [sparse, fill, odd, oddRow]: entry           *)
(*            (oddRow, 1) is odd, every other entry is fill                *)
(*   raw      optional [X, var]                                            *)
(*   obsm     optional set of [name, shape]                                *)
(*   obs      optional table [columns, blank, org]: the organism column    *)
(*            is org.first in row 1 and org.rest below; blank is an        *)
(*            optional [col, row, val] cell of another column; every other *)
(*            cell is TEST_VALUE                                           *)
(*   var      the column-metadata index                                    *)
(***************************************************************************)
NaN == [na |-> TRUE, s |-> <<>>]
Str(s) == [na |-> FALSE, s |-> s]
TEST_VALUE == <<"v">>

ValueAt(m, r, c) == IF r = m.oddRow /\ c = 1 THEN m.odd ELSE m.fill

\* X[0:k] of a dense matrix, as the set of its entries
DenseRows(m, k, ncols) == {ValueAt(m, r, c) : r \in 1..k, c \in 1..ncols}

\* X[0:k].data of a sparse matrix: the stored (nonzero) entries
SparseData(m, k, ncols) == {v \in DenseRows(m, k, ncols) : v # 0}

CellAt(t, col, row) ==
    IF col = ORGANISM_COLUMN
    THEN Str(IF row = 1 THEN t.org.first ELSE t.org.rest)
    ELSE IF ~IsNone(t.blank) /\ Get(t.blank).col = col /\ Get(t.blank).row = row
         THEN Get(t.blank).val
         ELSE Str(TEST_VALUE)

\* obs[column]
Column(t, col, n) == [r \in 1..n |-> CellAt(t, col, r)]

UsedX(cap_adata) ==
    IF ~IsNone(cap_adata.raw) THEN Get(cap_adata.raw).X ELSE cap_adata.X

UsedWidth(cap_adata) ==
    IF ~IsNone(cap_adata.raw)
    THEN Len(Get(cap_adata.raw).var)
    ELSE Len(cap_adata.var)

(***************************************************************************)
(* upload_validator.py: the four checks.  Each returns [raised, ex_list]   *)
(* (the gene-identifier check also organism and ensembl_ids): raised names *)
(* the exception that left the check, "" for a normal return.              *)
(***************************************************************************)
\* arr.astype(int), on doubled values: truncation toward zero
astype_int(v) == IF v >= 0 THEN (v \div 2) * 2 ELSE -(((-v) \div 2) * 2)

has_only_integers(arr) == \A v \in arr : v - astype_int(v) = 0

has_negative_values(arr) == \E v \in arr : v < 0

\* variant: the whole matrix is scanned, not its first rows
_check_is_positive_integers_all_rows(cap_adata) ==
    LET n_cells == cap_adata.n_cells
        X == Get(UsedX(cap_adata))
        arr == IF X.sparse
               THEN SparseData(X, n_cells, UsedWidth(cap_adata))
               ELSE DenseRows(X, n_cells, UsedWidth(cap_adata))
    IN  IF n_cells = 0
        THEN [raised |-> "IndexError", ret |-> FALSE]
        ELSE IF ~has_only_integers(arr) \/ has_negative_values(arr)
             THEN [raised |-> "", ret |-> FALSE]
             ELSE [raised |-> "", ret |-> TRUE]

_check_is_positive_integers(cap_adata) ==
    LET n_cells == cap_adata.n_cells
        max_rows == IF n_cells < MAX_OBS_ROWS_TO_CHECK
                    THEN n_cells ELSE MAX_OBS_ROWS_TO_CHECK
        X == Get(UsedX(cap_adata))
        arr == IF X.sparse
               THEN SparseData(X, max_rows, UsedWidth(cap_adata))
               ELSE DenseRows(X, max_rows, UsedWidth(cap_adata))
    IN  IF n_cells = 0
        THEN \* X[0] of a matrix without rows
             [raised |-> "IndexError", ret |-> FALSE]
        ELSE IF ~has_only_integers(arr) \/ has_negative_values(arr)
             THEN [raised |-> "", ret |-> FALSE]
             ELSE [raised |-> "", ret |-> TRUE]

_check_X(cap_adata, list) ==
    IF IsNone(UsedX(cap_adata))
    THEN append(list, AnnDataFileMissingCountMatrix)
    ELSE LET r == _check_is_positive_integers(cap_adata)
         IN  IF r.raised # ""
             THEN [raised |-> r.raised, ex_list |-> list]
             ELSE IF ~r.ret
                  THEN append(list, AnnDataFileMissingCountMatrix)
                  ELSE [raised |-> "", ex_list |-> list]

_has_embeddings(cap_adata) ==
    IF IsNone(cap_adata.obsm)
    THEN FALSE
    ELSE \E field \in Get(cap_adata.obsm) :
            /\ StartsWith(field.name, EMBEDDING_PREFIX)
            /\ field.shape = <<cap_adata.n_cells, 2>>

_check_obsm(cap_adata, list) ==
    IF _has_embeddings(cap_adata) = FALSE
    THEN append(list, AnnDataMissingEmbeddings)
    ELSE [raised |-> "", ex_list |-> list]

\* variant: only the empty string is replaced, whitespace is kept
replace_blank_empty_only(cell) == IF ~cell.na /\ cell.s = <<>> THEN NaN ELSE cell

\* seria.replace(r'^\s*$', np.nan, regex=True)
replace_blank(cell) == IF ~cell.na /\ MatchesBlank(cell.s) THEN NaN ELSE cell

\* pd.notna(seria).all()
notna_all(seria) == \A i \in 1..Len(seria) : ~seria[i].na

\* variant: the loop goes on after a failing column (no return)
RECURSIVE ScanObsColumns_no_return(_, _, _, _)
ScanObsColumns_no_return(t, n, i, list) ==
    IF i > Len(OBS_COLUMNS_REQUIRED)
    THEN [raised |-> "", ex_list |-> list]
    ELSE LET seria == Column(t, OBS_COLUMNS_REQUIRED[i], n)
             replaced == [r \in 1..Len(seria) |->
                            IF ~seria[r].na /\ MatchesBlank(seria[r].s)
                            THEN NaN ELSE seria[r]]
         IN  IF \E r \in 1..Len(replaced) : replaced[r].na
             THEN ScanObsColumns_no_return(t, n, i + 1,
                      Append(list, AnnDataMisingObsColumns))
             ELSE ScanObsColumns_no_return(t, n, i + 1, list)

\* the loop over OBS_COLUMNS_REQUIRED, from its i-th column on
RECURSIVE ScanObsColumns(_, _, _, _)
ScanObsColumns(t, n, i, list) ==
    IF i > Len(OBS_COLUMNS_REQUIRED)
    THEN [raised |-> "", ex_list |-> list]
    ELSE LET seria == Column(t, OBS_COLUMNS_REQUIRED[i], n)
             replaced == [r \in 1..Len(seria) |-> replace_blank(seria[r])]
         IN  IF ~notna_all(replaced)
             THEN append(list, AnnDataMisingObsColumns)
             ELSE ScanObsColumns(t, n, i + 1, list)

_check_obs(cap_adata, list) ==
    IF IsNone(cap_adata.obs)
    THEN \* obs.columns is read before obs is compared with None
         [raised |-> "AttributeError", ex_list |-> list]
    ELSE LET obs == Get(cap_adata.obs)
         IN  IF ~(Range(OBS_COLUMNS_REQUIRED) \subseteq obs.columns)
             THEN append(list, AnnDataMisingObsColumns)
             ELSE ScanObsColumns(obs, cap_adata.n_cells, 1, list)

\* pd.api.types.is_any_real_numeric_dtype(ens_ids): the index holds str
\* objects (x.split at line 220 needs them), so its dtype is object
is_any_real_numeric_dtype(ens_ids) == FALSE

\* ens_ids.isin(values).all()
isin_all(ids, values) == \A i \in 1..Len(ids) : ids[i] \in Range(values)

_validate_gene_ids(ens_ids, organism_str, list) ==
    IF ~is_any_real_numeric_dtype(ens_ids) /\ Len(ens_ids) # 0
    THEN LET df == data_frame(Some(organism_str))
         IN  IF df.raised # ""
             THEN [raised |-> df.raised, ex_list |-> list]
             ELSE IF IsNone(df.frame)
                  THEN \* df['ENSEMBL_gene'] of None
                       [raised |-> "TypeError", ex_list |-> list]
                  ELSE IF ~isin_all(ens_ids, Get(df.frame))
                       THEN append(list, AnnDataNonStandardVarError)
                       ELSE [raised |-> "", ex_list |-> list]
    ELSE append(list, AnnDataNonStandardVarError)

_remove_gene_version(ensemble_ids) ==
    [i \in 1..Len(ensemble_ids) |-> SplitFirst(ensemble_ids[i], ".")]

is_unique(ids) == Cardinality(Range(ids)) = Len(ids)

known_organisms_values == {HUMAN, MOUSE}

\* set(obs[ORGANISM_COLUMN].unique()) without ""
dataset_organisms(cap_adata) ==
    LET obs == Get(cap_adata.obs)
    IN  IF ORGANISM_COLUMN \in obs.columns
        THEN {c.s : c \in Range(Column(obs, ORGANISM_COLUMN, cap_adata.n_cells))}
                \ {<<>>}
        ELSE {}

\* variant: a single label is recorded only when it is a known organism
CheckOrganisms_known_only(cap_adata, clean_index, list, org) ==
    IF IsNone(cap_adata.obs)
    THEN [raised |-> "AttributeError", ex_list |-> list, organism |-> org]
    ELSE LET orgs == dataset_organisms(cap_adata)
         IN  IF Cardinality(orgs) = 1
             THEN LET o == CHOOSE x \in orgs : TRUE
                  IN  IF o \in known_organisms_values
                      THEN _validate_gene_ids(clean_index, o, list)
                              @@ [organism |-> Some(o)]
                      ELSE [raised |-> "", ex_list |-> list, organism |-> org]
             ELSE IF Cardinality(orgs) > 1
                  THEN _validate_gene_ids(clean_index, MULTI_SPECIES, list)
                          @@ [organism |-> Some(MULTI_SPECIES)]
                  ELSE [raised |-> "", ex_list |-> list, organism |-> org]

\* _check_var_index from line 165 on: [raised, ex_list, organism]
CheckOrganisms(cap_adata, clean_index, list, org) ==
    IF IsNone(cap_adata.obs)
    THEN [raised |-> "AttributeError", ex_list |-> list, organism |-> org]
    ELSE LET orgs == dataset_organisms(cap_adata)
         IN  IF Cardinality(orgs) = 1
             THEN LET o == CHOOSE x \in orgs : TRUE
                  IN  IF o \in known_organisms_values
                      THEN _validate_gene_ids(clean_index, o, list)
                              @@ [organism |-> Some(o)]
                      ELSE [raised |-> "", ex_list |-> list,
                            organism |-> Some(o)]
             ELSE IF Cardinality(orgs) > 1
                  THEN _validate_gene_ids(clean_index, MULTI_SPECIES, list)
                          @@ [organism |-> Some(MULTI_SPECIES)]
                  ELSE [raised |-> "", ex_list |-> list, organism |-> org]

\* variant: the raw-subset step compares the identifiers without their
\* version suffix
_check_var_index_clean_subset(cap_adata, list, org) ==
    LET index == cap_adata.var
        clean_index == _remove_gene_version(index)
        ids == [ensembl_ids |-> Some(clean_index)]
    IN  IF ~is_unique(clean_index)
        THEN append(list, AnnDataNonStandardVarError)
                @@ [organism |-> org] @@ ids
        ELSE IF /\ ~IsNone(cap_adata.raw)
                /\ ~isin_all(clean_index, Get(cap_adata.raw).var)
             THEN append(list, AnnDataNonStandardVarError)
                     @@ [organism |-> org] @@ ids
             ELSE CheckOrganisms(cap_adata, clean_index, list, org) @@ ids

\* [raised, ex_list, organism, ensembl_ids]
_check_var_index(cap_adata, list, org) ==
    LET index == cap_adata.var
        clean_index == _remove_gene_version(index)
        ids == [ensembl_ids |-> Some(clean_index)]
    IN  IF ~is_unique(clean_index)
        THEN append(list, AnnDataNonStandardVarError)
                @@ [organism |-> org] @@ ids
        ELSE IF /\ ~IsNone(cap_adata.raw)
                /\ ~isin_all(index, Get(cap_adata.raw).var)
             THEN append(list, AnnDataNonStandardVarError)
                     @@ [organism |-> org] @@ ids
             ELSE CheckOrganisms(cap_adata, clean_index, list, org) @@ ids

(***************************************************************************)
(* The inputs: paths and datasets.  Each family of datasets varies the     *)
(* part one check reads and takes the other parts from a passing and a     *)
(* failing default.                                                        *)
(***************************************************************************)
GoodPath == <<"a">> \o H5AD_SUFFIX
BadPaths == {<<"a", ".", "h", "5">>, H5AD_SUFFIX \o <<".", "b">>}

\* matrix values, doubled: 0, 1, 1.5, -1, -1.5
Values == {0, 2, 3, -2, -3}

RowCounts ==
    {0, 1, MAX_OBS_ROWS_TO_CHECK}
        \cup (MAX_OBS_ROWS_TO_CHECK + 1 .. MAX_OBS_ROWS_TO_CHECK + MaxExtraRows)

Matrices(n) ==
    [sparse : BOOLEAN, fill : {2}, odd : Values,
     oddRow : IF n = 0 THEN {1} ELSE {1, n}]

CountMatrix == [sparse |-> FALSE, fill |-> 2, odd |-> 2, oddRow |-> 1]
FloatMatrix == [sparse |-> FALSE, fill |-> 2, odd |-> 3, oddRow |-> 1]
NegativeMatrix == [sparse |-> TRUE, fill |-> 2, odd |-> -2, oddRow |-> 1]

Raws ==
    {None}
        \cup {Some([X |-> x, var |-> <<ENSG1>>]) :
                x \in {None, Some(CountMatrix), Some(NegativeMatrix)}}

X_umap == <<"X", "_", "u">>
umap == <<"u">>

Embedding(name, rows, cols) == [name |-> name, shape |-> <<rows, cols>>]

Obsms(n) ==
    {None, Some({}),
     Some({Embedding(X_umap, n, 2)}),
     Some({Embedding(umap, n, 2)}),
     Some({Embedding(X_umap, n, 3)}),
     Some({Embedding(X_umap, n + 1, 2)}),
     Some({Embedding(umap, n, 2), Embedding(X_umap, n, 2)})}

UNSUPPORTED == <<"u", "n", "s">>
NEW_ORGANISM == <<"n", "e", "w">>
PADDED_HUMAN == <<" ">> \o HUMAN \o <<" ">>
Labels ==
    {HUMAN, LitHomoSapiens, PADDED_HUMAN, MOUSE, UNSUPPORTED, NEW_ORGANISM,
     <<>>, <<" ">>}

OrgColumns ==
    {[first |-> a, rest |-> b] : a \in Labels, b \in {MOUSE, <<>>}}
        \cup {[first |-> a, rest |-> a] : a \in Labels}

Required == Range(OBS_COLUMNS_REQUIRED)

FullObs(org) == [columns |-> Required, blank |-> None, org |-> org]

Blanks(n) ==
    [col : Required \ {ORGANISM_COLUMN},
     row : {1, n},
     val : {Str(<<>>), Str(<<" ">>), Str(<<" ", "\t">>), NaN}]

MetadataTables(n) ==
    LET orgs == {[first |-> UNSUPPORTED, rest |-> UNSUPPORTED],
                 [first |-> UNSUPPORTED, rest |-> <<" ">>],
                 [first |-> <<>>, rest |-> UNSUPPORTED]}
    IN  {[columns |-> c, blank |-> None, org |-> o] :
            c \in {Required, {}} \cup {Required \ {x} : x \in Required},
            o \in orgs}
          \cup {[columns |-> Required, blank |-> Some(b), org |-> o] :
                  b \in Blanks(n), o \in orgs}

VarIndexes == UNION {[1..k -> {ENSG1, ENSG1_8, ENSMUSG1, NUM0}] : k \in 0..MaxVars}

GeneRaws ==
    {None,
     Some([X |-> Some(CountMatrix), var |-> <<ENSG1, ENSMUSG1>>]),
     Some([X |-> Some(CountMatrix), var |-> <<ENSG1_8, NUM0>>])}

PassingObs == Some(FullObs([first |-> UNSUPPORTED, rest |-> UNSUPPORTED]))
FailingObs ==
    Some([columns |-> Required \ {"tissue"}, blank |-> None,
          org |-> [first |-> HUMAN, rest |-> HUMAN]])
PassingVar == <<ENSG1>>
FailingVar == <<ENSG1, ENSG1_8>>

Dataset(n, x, raw, obsm, obs, var) ==
    [n_cells |-> n, X |-> x, raw |-> raw, obsm |-> obsm, obs |-> obs,
     var |-> var]

MatrixDatasets ==
    UNION {{Dataset(n, x, raw, obsm, obs, var) :
                x \in {None} \cup {Some(m) : m \in Matrices(n)},
                raw \in Raws,
                obsm \in {Some({Embedding(X_umap, n, 2)}), None},
                obs \in {PassingObs, FailingObs},
                var \in {PassingVar, FailingVar}} : n \in RowCounts}

EmbeddingDatasets ==
    UNION {{Dataset(n, x, None, obsm, obs, var) :
                x \in {Some(CountMatrix), Some(FloatMatrix)},
                obsm \in Obsms(n),
                obs \in {PassingObs, FailingObs},
                var \in {PassingVar, FailingVar}} : n \in {1, 2}}

MetadataDatasets ==
    UNION {{Dataset(n, x, None, obsm, obs, var) :
                x \in {Some(CountMatrix), Some(FloatMatrix)},
                obsm \in {Some({Embedding(X_umap, n, 2)}), None},
                obs \in {None} \cup {Some(t) : t \in MetadataTables(n)},
                var \in {PassingVar, FailingVar}} : n \in {1, 2}}

GeneDatasets ==
    {Dataset(2, x, raw, Some({Embedding(X_umap, 2, 2)}), obs, var) :
        x \in {Some(CountMatrix), Some(FloatMatrix)},
        raw \in GeneRaws,
        obs \in {Some(FullObs(o)) : o \in OrgColumns}
                  \cup {Some([columns |-> Required \ {ORGANISM_COLUMN},
                              blank |-> None,
                              org |-> [first |-> HUMAN, rest |-> HUMAN]])},
        var \in VarIndexes}

Datasets ==
    MatrixDatasets \cup EmbeddingDatasets \cup MetadataDatasets
        \cup GeneDatasets

(***************************************************************************)
(* UploadValidator.__init__ and validate                                   *)
(***************************************************************************)
Terminal == {"Passed", "Failed", "BadFile", "Fault"}

Outcome(result, exc, errors) ==
    [result |-> result, exc |-> exc, errors |-> errors, call |-> calls]

Init ==
    /\ \/ adata_path = GoodPath /\ file \in Datasets
       \/ adata_path \in BadPaths /\ file \in EmbeddingDatasets
    /\ ex_list = <<>>
    /\ organism = None
    /\ ensembl_ids = None
    /\ pc = "Init"
    /\ log = <<>>
    /\ opens = 0
    /\ calls = 0
    /\ outcomes = <<>>

\* a new UploadValidator(adata_path) for the same path, after a finished call
Construct ==
    /\ pc \in Terminal
    /\ Len(outcomes) < MaxCalls
    /\ ex_list' = <<>>
    /\ organism' = None
    /\ ensembl_ids' = None
    /\ pc' = "Init"
    /\ log' = <<>>
    /\ opens' = 0
    /\ calls' = 0
    /\ UNCHANGED <<adata_path, file, outcomes>>

\* variant: ".h5ad" is looked for at the start of the path, not its end
IsH5ad_prefix(path) == StartsWith(path, H5AD_SUFFIX)

IsH5ad(path) == EndsWith(path, H5AD_SUFFIX)

\* validate(), up to the extension test
Validate ==
    /\ pc \in Terminal \cup {"Init"}
    /\ Len(outcomes) < MaxCalls
    /\ calls' = calls + 1
    /\ log' = <<>>
    /\ IF ~IsH5ad(adata_path)
       THEN /\ pc' = "BadFile"
            /\ outcomes' = Append(outcomes,
                    [result |-> "Raised", exc |-> BadAnnDataFile,
                     errors |-> <<>>, call |-> calls + 1])
       ELSE /\ pc' = "OpenSource"
            /\ outcomes' = outcomes
    /\ UNCHANGED <<adata_path, file, ex_list, organism, ensembl_ids, opens>>

\* read_h5ad, read_obs, read_var, raw.read_var
OpenSource ==
    /\ pc = "OpenSource"
    /\ opens' = opens + 1
    /\ pc' = "CheckMatrix"
    /\ UNCHANGED <<adata_path, file, ex_list, organism, ensembl_ids, log,
                   calls, outcomes>>

\* what a check's return or exception does to the call
AfterCheck(r, next) ==
    /\ ex_list' = r.ex_list
    /\ IF r.raised # ""
       THEN /\ pc' = "Fault"
            /\ outcomes' = Append(outcomes, Outcome("Raised", r.raised, <<>>))
       ELSE /\ pc' = next
            /\ outcomes' = outcomes

CheckMatrix ==
    /\ pc = "CheckMatrix"
    /\ log' = Append(log, "X")
    /\ AfterCheck(_check_X(file, ex_list), "CheckEmbeddings")
    /\ UNCHANGED <<adata_path, file, organism, ensembl_ids, opens, calls>>

CheckEmbeddings ==
    /\ pc = "CheckEmbeddings"
    /\ log' = Append(log, "obsm")
    /\ AfterCheck(_check_obsm(file, ex_list), "CheckMetadata")
    /\ UNCHANGED <<adata_path, file, organism, ensembl_ids, opens, calls>>

CheckMetadata ==
    /\ pc = "CheckMetadata"
    /\ log' = Append(log, "obs")
    /\ AfterCheck(_check_obs(file, ex_list), "CheckGeneIds")
    /\ UNCHANGED <<adata_path, file, organism, ensembl_ids, opens, calls>>

CheckGeneIds ==
    /\ pc = "CheckGeneIds"
    /\ log' = Append(log, "var index")
    /\ LET r == _check_var_index(file, ex_list, organism)
       IN  /\ AfterCheck(r, "Aggregate")
           /\ organism' = r.organism
           /\ ensembl_ids' = r.ensembl_ids
    /\ UNCHANGED <<adata_path, file, opens, calls>>

\* lines 68-73
Aggregate ==
    /\ pc = "Aggregate"
    /\ IF have_errors(ex_list)
       THEN /\ pc' = "Failed"
            /\ outcomes' = Append(outcomes,
                    Outcome("Raised", "CapMultiException", to_list(ex_list)))
       ELSE /\ pc' = "Passed"
            /\ outcomes' = Append(outcomes, Outcome("Returned", "", <<>>))
    /\ UNCHANGED <<adata_path, file, ex_list, organism, ensembl_ids, log,
                   opens, calls>>

Next ==
    \/ Construct
    \/ Validate
    \/ OpenSource
    \/ CheckMatrix
    \/ CheckEmbeddings
    \/ CheckMetadata
    \/ CheckGeneIds
    \/ Aggregate

Spec == Init /\ [][Next]_vars

(***************************************************************************)
(* Properties.                                                             *)
(***************************************************************************)
AllChecks == <<"X", "obsm", "obs", "var index">>

\* the sub-error kinds, in the order of the checks that append them
KindOrder ==
    <<AnnDataFileMissingCountMatrix, AnnDataMissingEmbeddings,
      AnnDataMisingObsColumns, AnnDataNonStandardVarError>>

Count(list, kind) == Cardinality({i \in 1..Len(list) : list[i] = kind})

RECURSIVE IsSubsequence(_, _)
IsSubsequence(a, b) ==
    IF Len(a) = 0 THEN TRUE
    ELSE IF Len(b) = 0 THEN FALSE
    ELSE IF Head(a) = Head(b) THEN IsSubsequence(Tail(a), Tail(b))
    ELSE IsSubsequence(a, Tail(b))

LastOutcome == outcomes[Len(outcomes)]

\* the path ends in ".h5ad", stated on its last five characters
PathEndsInH5ad ==
    LET n == Len(adata_path)
    IN  /\ n >= 5
        /\ adata_path[n - 4] = "." /\ adata_path[n - 3] = "h"
        /\ adata_path[n - 2] = "5" /\ adata_path[n - 1] = "a"
        /\ adata_path[n] = "d"

\* C1: a validate call on a source that ends in ".h5ad" and opens runs the
\* count-matrix, embedding, metadata and gene-identifier checks, each once
\* and in that order, before it ends; a dataset failing all four checks
\* yields the four sub-errors.
C1_AllChecksRunInOrder ==
    (pc \in {"Passed", "Failed", "Fault"} /\ calls = 1) =>
        /\ log = AllChecks
        /\ pc # "Fault"

\* C2: two validate calls on the same unmodified dataset, on two validator
\* objects or on one, end the same way with the same ordered aggregate.
C2_TwoCallsSameAggregate ==
    \A i, j \in 1..Len(outcomes) :
        /\ outcomes[i].result = outcomes[j].result
        /\ outcomes[i].exc = outcomes[j].exc
        /\ outcomes[i].errors = outcomes[j].errors

\* C3: when the path does not end in ".h5ad", a validate call ends with
\* BadAnnDataFile, no check has run, the source was never opened, the
\* aggregate is empty and organism and ensembl_ids are still None.
C3_BadFileShortCircuits ==
    (calls >= 1 /\ ~PathEndsInH5ad) =>
        /\ pc = "BadFile"
        /\ LastOutcome.result = "Raised"
        /\ LastOutcome.exc = BadAnnDataFile
        /\ log = <<>>
        /\ opens = 0
        /\ ex_list = <<>>
        /\ organism = None
        /\ ensembl_ids = None

C3_Witness == pc = "BadFile" /\ calls = 2 /\ Len(outcomes) = 2

\* C4: once the four checks of the first validate call on a validator have
\* run, the call returns normally iff no sub-error was appended and raises
\* the aggregate iff one was; the raised aggregate holds exactly the
\* appended sub-errors.
C4_PassedIffNoSubError ==
    (calls = 1 /\ pc \in {"Passed", "Failed"}) =>
        /\ log = AllChecks
        /\ (pc = "Passed") <=> (ex_list = <<>>)
        /\ (pc = "Failed") <=> (Len(ex_list) >= 1)
        /\ pc = "Passed" => LastOutcome.result = "Returned"
        /\ pc = "Failed" =>
              /\ LastOutcome.result = "Raised"
              /\ LastOutcome.exc = "CapMultiException"
              /\ LastOutcome.errors = ex_list

C4_Witness == calls = 1 /\ pc = "Failed" /\ Len(ex_list) = 1

\* C5: during and after the first validate call on a validator the aggregate
\* is a subsequence of the kinds of the checks run so far, in check order:
\* each kind at most once, appended by its own check only, at most 4 entries.
C5_ErrorsInCheckOrder ==
    calls = 1 =>
        /\ IsSubsequence(ex_list, SubSeq(KindOrder, 1, Len(log)))
        /\ Len(ex_list) <= 4

C5_Witness == calls = 1 /\ pc = "Failed" /\ ex_list = KindOrder

\* every row of every required column is present, not missing, not empty
\* and not made of whitespace only
NonBlank(cell) ==
    /\ ~cell.na
    /\ \E i \in 1..Len(cell.s) : cell.s[i] \notin {" ", "\t", "\n"}

ObsFullyPopulated ==
    /\ ~IsNone(file.obs)
    /\ \A col \in {"assay", "disease", "organism", "tissue"} :
          /\ col \in Get(file.obs).columns
          /\ \A row \in 1..file.n_cells :
                NonBlank(CellAt(Get(file.obs), col, row))

\* the required-metadata check of the first call has run on a table
MetadataCheckRun ==
    /\ calls = 1
    /\ Len(log) >= 3
    /\ ~IsNone(file.obs)

\* C6: run on a row-metadata table, the required-metadata check appends
\* nothing iff the four required columns are present and every row's value
\* in each is neither missing nor empty nor whitespace-only; otherwise it
\* appends exactly one AnnDataMisingObsColumns.
C6_MetadataCheck ==
    MetadataCheckRun =>
        /\ ObsFullyPopulated <=> (Count(ex_list, AnnDataMisingObsColumns) = 0)
        /\ ~ObsFullyPopulated <=> (Count(ex_list, AnnDataMisingObsColumns) = 1)

C6_Witness ==
    /\ MetadataCheckRun
    /\ ~IsNone(Get(file.obs).blank)
    /\ Get(Get(file.obs).blank).val = Str(<<" ", "\t">>)
    /\ Get(Get(file.obs).blank).row = 2
    /\ Count(ex_list, AnnDataMisingObsColumns) = 1

\* the distinct non-empty labels of the organism metadata column
OrganismLabels ==
    IF IsNone(file.obs) \/ "organism" \notin Get(file.obs).columns
    THEN {}
    ELSE {CellAt(Get(file.obs), "organism", row).s : row \in 1..file.n_cells}
            \ {<<>>}

CanonicalIds == [i \in 1..Len(file.var) |-> SplitFirst(file.var[i], ".")]

\* the Organism Resolver of the specification: a trimmed, case-folded match
ResolvesTo(label, literal) == StrLower(StrStrip(label)) = literal

LooksNumeric(id) ==
    /\ Len(id) > 0
    /\ \A i \in 1..Len(id) :
          id[i] \in {"0", "1", "2", "3", "4", "5", "6", "7", "8", "9"}

\* what the gene-identifier sub-check rejects, for a catalog
RejectedBy(catalog) ==
    \/ Len(CanonicalIds) = 0
    \/ \A i \in 1..Len(CanonicalIds) : LooksNumeric(CanonicalIds[i])
    \/ \E i \in 1..Len(CanonicalIds) : CanonicalIds[i] \notin catalog

\* the gene-identifier check of the first call has been entered and has
\* ended, by a return or by an exception
GeneCheckEnded == calls = 1 /\ Len(log) = 4

NonStandardVarAppended == Count(ex_list, AnnDataNonStandardVarError) >= 1

\* C7: with pairwise unique canonical identifiers and no raw table, the
\* gene-identifier check appends nothing when there is no non-empty organism
\* label or one label the resolver does not recognize, and with one label
\* recognized as Human or Mouse it appends AnnDataNonStandardVarError iff
\* the identifiers are empty, uniformly numeric or not all in the catalog.
C7_SingleOrganism ==
    (/\ GeneCheckEnded
     /\ IsNone(file.raw)
     /\ Cardinality(Range(CanonicalIds)) = Len(CanonicalIds)
     /\ Cardinality(OrganismLabels) <= 1) =>
        IF OrganismLabels = {}
        THEN ~NonStandardVarAppended
        ELSE LET label == CHOOSE l \in OrganismLabels : TRUE
             IN  IF ResolvesTo(label, LitHomoSapiens)
                 THEN NonStandardVarAppended <=> RejectedBy({ENSG1})
                 ELSE IF ResolvesTo(label, LitMusMusculus)
                      THEN NonStandardVarAppended <=> RejectedBy({ENSMUSG1})
                      ELSE ~NonStandardVarAppended

\* C8: with two or more distinct non-empty organism labels the
\* gene-identifier check completes without a fault and appends
\* AnnDataNonStandardVarError iff some canonical identifier is outside the
\* combined Human+Mouse catalog.
C8_MultiSpecies ==
    (/\ GeneCheckEnded
     /\ IsNone(file.raw)
     /\ Len(CanonicalIds) > 0
     /\ Cardinality(Range(CanonicalIds)) = Len(CanonicalIds)
     /\ Cardinality(OrganismLabels) >= 2) =>
        /\ pc # "Fault"
        /\ NonStandardVarAppended <=>
              (\E i \in 1..Len(CanonicalIds) :
                  CanonicalIds[i] \notin {ENSG1, ENSMUSG1})

\* the matrix the count-matrix check reads is absent, or some value in its
\* first min(n_rows, 100) rows is negative or not integral; values are
\* stored doubled, so an integral value is an even number
CountMatrixDefect ==
    \/ IsNone(UsedX(file))
    \/ \E r \in 1..file.n_cells, c \in 1..UsedWidth(file) :
          /\ r <= 100
          /\ LET v == ValueAt(Get(UsedX(file)), r, c)
             IN  v < 0 \/ v % 2 # 0

\* C9: the count-matrix check appends AnnDataFileMissingCountMatrix iff the
\* matrix (raw if raw exists) is absent or a value in its first
\* min(n_rows, 100) rows is negative or non-integral, for the dense and the
\* sparse representation alike; values in later rows do not matter.
C9_CountMatrixCheck ==
    (calls = 1 /\ Len(log) >= 1) =>
        /\ CountMatrixDefect <=>
              (Count(ex_list, AnnDataFileMissingCountMatrix) = 1)
        /\ ~CountMatrixDefect <=>
              (Count(ex_list, AnnDataFileMissingCountMatrix) = 0)

C9_Witness ==
    /\ calls = 1
    /\ pc = "CheckEmbeddings"
    /\ IsNone(file.raw)
    /\ ~IsNone(file.X)
    /\ Get(file.X).sparse
    /\ Get(file.X).odd = -3
    /\ Get(file.X).oddRow > MAX_OBS_ROWS_TO_CHECK
    /\ ex_list = <<>>

\* C10: no check raises: every check returns to validate, whatever the
\* dataset view holds.
C10_ChecksNeverRaise == pc # "Fault"

\* the label the gene-identifier check is to record: the single non-empty
\* label, or the MultiSpecies label for two or more
LabelToRecord ==
    IF Cardinality(OrganismLabels) = 1
    THEN CHOOSE l \in OrganismLabels : TRUE
    ELSE <<"M", "u", "l", "t", "i", " ", "s", "p", "e", "c", "i", "e", "s">>

CanonicalIdsUnique == Cardinality(Range(CanonicalIds)) = Len(CanonicalIds)

\* some primary identifier, as written in the index, is not in the raw table
WrittenIdOutsideRaw ==
    /\ ~IsNone(file.raw)
    /\ \E i \in 1..Len(file.var) : file.var[i] \notin Range(Get(file.raw).var)

\* the gene-identifier check stops before it looks at the organism column
StopsEarly == ~CanonicalIdsUnique \/ WrittenIdOutsideRaw

\* the gene-identifier check of the current call has been entered and has
\* ended, on a dataset with at least one non-empty organism label
GeneCheckEndedWithLabels == Len(log) = 4 /\ OrganismLabels # {}

\* C11 (as stated): after the gene-identifier check has run on a dataset with
\* at least one non-empty organism label, the recorded organism is that
\* label (one label) or the MultiSpecies label (two or more), also when the
\* check stopped early on non-unique identifiers or on the raw-subset step.
C11_OrganismAlwaysRecorded ==
    GeneCheckEndedWithLabels => organism = <<LabelToRecord>>

\* C11 (amended): after the gene-identifier check has run on a dataset with
\* at least one non-empty organism label, the recorded organism is that
\* label or the MultiSpecies label whenever the check reached the organism
\* step, whether it then passed, appended an error or raised; when the
\* check stopped early the recorded organism is still None.
C11_OrganismRecordedUnlessEarlyStop ==
    GeneCheckEndedWithLabels =>
        IF StopsEarly
        THEN organism = <<>>
        ELSE organism = <<LabelToRecord>>

C11_Witness ==
    /\ calls = 1
    /\ pc = "Failed"
    /\ GeneCheckEndedWithLabels
    /\ ~StopsEarly
    /\ Cardinality(OrganismLabels) = 1
    /\ NonStandardVarAppended
    /\ organism = <<LabelToRecord>>

\* the gene-identifier check of the first call on a validator has ended, on
\* a dataset with a raw table and pairwise unique canonical identifiers
RawSubsetStepReached ==
    /\ calls = 1
    /\ Len(log) = 4
    /\ ~IsNone(file.raw)
    /\ CanonicalIdsUnique

\* the check appended its error and left before the organism step, which
\* would have recorded the organism or, without labels, appended nothing
StoppedAtRawSubsetStep ==
    /\ Count(ex_list, AnnDataNonStandardVarError) = 1
    /\ organism = <<>>
    /\ pc # "Fault"

\* C12 (as stated): with a raw table and pairwise unique canonical
\* identifiers, the gene-identifier check appends
\* AnnDataNonStandardVarError and stops at the raw-subset step iff some
\* canonical (version-stripped) primary identifier is not in the raw
\* table's identifier set; "ENSG1.8" with "ENSG1" in raw passes the step.
C12_CanonicalSubsetOfRaw ==
    RawSubsetStepReached =>
        (StoppedAtRawSubsetStep <=>
            \E i \in 1..Len(CanonicalIds) :
                CanonicalIds[i] \notin Range(Get(file.raw).var))

\* C12 (amended): with a raw table and pairwise unique canonical
\* identifiers, the check appends AnnDataNonStandardVarError and stops at
\* the raw-subset step iff some primary identifier as written, version
\* suffix included, is not in the raw table's identifier set.
C12_WrittenSubsetOfRaw ==
    RawSubsetStepReached =>
        (StoppedAtRawSubsetStep <=>
            \E i \in 1..Len(file.var) :
                file.var[i] \notin Range(Get(file.raw).var))

C12_Witness ==
    /\ RawSubsetStepReached
    /\ file.var = <<<<"E", "N", "S", "G", "1", ".", "8">>>>
    /\ <<"E", "N", "S", "G", "1">> \in Range(Get(file.raw).var)
    /\ StoppedAtRawSubsetStep

====
